---- MODULE Spec2Model ----
(***************************************************************************)
(* The cmus control-socket client (CmusPlayer) and the OCP backend built   *)
(* on it (OVOSCmusService / CmusOCPAudioService).                          *)
(*                                                                         *)
(* Text is modelled as Python has it: a str is a sequence of code points,  *)
(* bytes are a sequence of byte values.  The socket is a byte stream: a    *)
(* recv(n) returns what is queued, at most n bytes, and leaves the rest.   *)
(* The player (cmus) is the environment: it answers each command line it   *)
(* reads from a connection with one reply written to the same connection.  *)
(***************************************************************************)
EXTENDS Integers, Sequences, FiniteSets, TLC

\* ------------------------------------------------------------- bounds
\* facade / backend calls begun in one behaviour
MaxCalls == 2
\* entries the backend's queue may hold
MaxTracks == 2
\* bytes by which the player's long status reply exceeds one read
Overrun == 1

\* -------------------------------------------------- program constants
\* s.recv(2048)
RecvBufSize == 2048
\* "\n"
NL == 10
\* first code point str.encode("ascii") rejects
AsciiLimit == 128

\* caller threads that may exist
Thread == {1, 2}

\* ---------------------------------------------------------------- text
T_status         == <<115, 116, 97, 116, 117, 115>>
T_player_play    == <<112, 108, 97, 121, 101, 114, 45, 112, 108, 97, 121>>
T_player_pause   == <<112, 108, 97, 121, 101, 114, 45, 112, 97, 117, 115, 101>>
T_player_stop    == <<112, 108, 97, 121, 101, 114, 45, 115, 116, 111, 112>>
T_add_           == <<97, 100, 100, 32>>
T_status_stopped == <<115, 116, 97, 116, 117, 115, 32, 115, 116, 111, 112, 112, 101, 100>>
T_status_paused  == <<115, 116, 97, 116, 117, 115, 32, 112, 97, 117, 115, 101, 100>>
T_status_playing == <<115, 116, 97, 116, 117, 115, 32, 112, 108, 97, 121, 105, 110, 103>>
\* the characters of a list's repr: [ ] ' , space
ChBracketL == <<91>>
ChBracketR == <<93>>
ChQuote    == <<39>>
ChCommaSp  == <<44, 32>>
\* track locators the caller queues: "a", "b" and the non-ASCII "é"
TrackName == {<<97>>, <<98>>, <<233>>}

\* Python's  needle in hay  on str
ContainsFrom(needle, hay, i) ==
    /\ hay[i + 1] = needle[1]
    /\ SubSeq(hay, i + 1, i + Len(needle)) = needle

Contains(needle, hay) ==
    \E i \in 0..(Len(hay) - Len(needle)) : ContainsFrom(needle, hay, i)

StartsWith(text, prefix) ==
    /\ Len(prefix) <= Len(text)
    /\ SubSeq(text, 1, Len(prefix)) = prefix

\* repr() of a str without quotes or escapes in it
ReprStr(s) == ChQuote \o s \o ChQuote

RECURSIVE JoinRepr(_)
JoinRepr(l) ==
    IF l = <<>> THEN <<>>
    ELSE IF Len(l) = 1 THEN ReprStr(l[1])
    ELSE ReprStr(l[1]) \o ChCommaSp \o JoinRepr(Tail(l))

\* str() of a list of str, as the f-string of add_path formats it
ReprList(l) == ChBracketL \o JoinRepr(l) \o ChBracketR

\* str.encode("ascii"): the same values as bytes, or UnicodeEncodeError
EncodeAsciiOk(text) == \A i \in 1..Len(text) : text[i] < AsciiLimit

\* bytes.decode('utf-8') of 7-bit bytes: each byte is its code point; a byte
\* of 128 or more starts a multi-byte sequence, which the modelled player
\* never sends, and is reported as a decode error
DecodeUtf8Ok(bytes) == \A i \in 1..Len(bytes) : bytes[i] < AsciiLimit


\* ------------------------------------------------------ CmusPlayer: text
\* what each method hands to send_socket_command
CmusPlayer_add_path(path) == T_add_ \o ReprList(path)

CmusPlayer_play == T_player_play

CmusPlayer_pause == T_player_pause

CmusPlayer_unpause == CmusPlayer_pause

CmusPlayer_stop == T_player_stop

\* the substring tests of the three state queries
is_stopped(reply) == Contains(T_status_stopped, reply)

is_paused(reply) == Contains(T_status_paused, reply)

\* is_playing with the needle cut to 'status'
is_playing_loose(reply) == Contains(T_status, reply)

is_playing(reply) == Contains(T_status_playing, reply)

\* the line terminator forgotten
Wire_bare(command) == command

\* (command + "\n"): the text send_socket_command encodes and writes
Wire(command) == command \o <<NL>>

\* the size send_socket_command passes to recv
RecvRequest == RecvBufSize

\* socket_path: both candidates are built (two os.environ lookups) before
\* either is tested; the first that exists is returned
socket_path(env) ==
    IF ~env.xdgSet \/ ~env.homeSet THEN "KeyError"
    ELSE IF env.xdgExists THEN "xdg"
    ELSE IF env.homeExists THEN "home"
    ELSE "RuntimeError"

\* ------------------------------------------- operations as step programs
\* An operation is a sequence of send_socket_command calls; the program
\* says, at each stage and given the reply just read, what comes next.
SendStep(c, st) == [kind |-> "send", cmd |-> c, stage |-> st, val |-> "None"]

ReturnStep(v) == [kind |-> "return", cmd |-> <<>>, stage |-> "end", val |-> v]

PyBool(b) == IF b THEN "True" ELSE "False"

Query_is_stopped(stage, reply) ==
    IF stage = "start" THEN SendStep(T_status, "asked")
    ELSE ReturnStep(PyBool(is_stopped(reply)))

Query_is_paused(stage, reply) ==
    IF stage = "start" THEN SendStep(T_status, "asked")
    ELSE ReturnStep(PyBool(is_paused(reply)))

Query_is_playing(stage, reply) ==
    IF stage = "start" THEN SendStep(T_status, "asked")
    ELSE ReturnStep(PyBool(is_playing(reply)))

toggle_pause(stage, reply) ==
    CASE stage = "start" -> SendStep(T_status, "is_paused")
      [] stage = "is_paused" ->
            IF is_paused(reply) THEN SendStep(CmusPlayer_unpause, "toggled")
            ELSE SendStep(CmusPlayer_pause, "toggled")
      [] OTHER -> ReturnStep("None")

\* play_pause with the else lost: after play() it goes on to toggle_pause()
play_pause_no_else(stage, reply) ==
    CASE stage = "start" -> SendStep(T_status, "is_stopped")
      [] stage = "is_stopped" ->
            IF is_stopped(reply) THEN SendStep(CmusPlayer_play, "played")
            ELSE toggle_pause("start", reply)
      [] stage = "played" -> toggle_pause("start", reply)
      [] OTHER -> toggle_pause(stage, reply)

play_pause(stage, reply) ==
    CASE stage = "start" -> SendStep(T_status, "is_stopped")
      [] stage = "is_stopped" ->
            IF is_stopped(reply) THEN SendStep(CmusPlayer_play, "played")
            ELSE toggle_pause("start", reply)
      [] stage = "played" -> ReturnStep("None")
      [] OTHER -> toggle_pause(stage, reply)

\* play() that starts the player before it queues the tracks
Service_play_first(stage, trk) ==
    CASE stage = "start" -> SendStep(CmusPlayer_play, "played")
      [] stage = "played" -> SendStep(CmusPlayer_add_path(trk), "added")
      [] OTHER -> ReturnStep("None")

Service_play(stage, trk) ==
    CASE stage = "start" -> SendStep(CmusPlayer_add_path(trk), "added")
      [] stage = "added" -> SendStep(CmusPlayer_play, "played")
      [] OTHER -> ReturnStep("None")

\* stop() without the is_playing() check
Service_stop_unchecked(stage, reply) ==
    CASE stage = "start" -> SendStep(T_status, "is_playing")
      [] stage = "is_playing" -> SendStep(CmusPlayer_stop, "stopped")
      [] OTHER -> ReturnStep("True")

Service_stop(stage, reply) ==
    CASE stage = "start" -> SendStep(T_status, "is_playing")
      [] stage = "is_playing" ->
            IF is_playing(reply) THEN SendStep(CmusPlayer_stop, "stopped")
            ELSE ReturnStep("False")
      [] OTHER -> ReturnStep("True")

Service_pause(stage, reply) ==
    CASE stage = "start" -> SendStep(T_status, "is_paused")
      [] stage = "is_paused" ->
            IF ~is_paused(reply) THEN SendStep(CmusPlayer_pause, "paused")
            ELSE ReturnStep("None")
      [] OTHER -> ReturnStep("None")

Service_resume(stage, reply) ==
    CASE stage = "start" -> SendStep(T_status, "is_paused")
      [] stage = "is_paused" ->
            IF is_paused(reply) THEN SendStep(CmusPlayer_pause, "resumed")
            ELSE ReturnStep("None")
      [] OTHER -> ReturnStep("None")

Ops == {"is_stopped", "is_paused", "is_playing", "play_pause",
        "play", "stop", "pause", "resume"}

Program(o, stage, reply, trk) ==
    CASE o = "is_stopped" -> Query_is_stopped(stage, reply)
      [] o = "is_paused"  -> Query_is_paused(stage, reply)
      [] o = "is_playing" -> Query_is_playing(stage, reply)
      [] o = "play_pause" -> play_pause(stage, reply)
      [] o = "play"       -> Service_play(stage, trk)
      [] o = "stop"       -> Service_stop(stage, reply)
      [] o = "pause"      -> Service_pause(stage, reply)
      [] OTHER            -> Service_resume(stage, reply)

\* ------------------------------------------------ the player (environment)
PlayerState == {"stopped", "paused", "playing"}

StatusNeedle(st) ==
    CASE st = "stopped" -> T_status_stopped
      [] st = "paused"  -> T_status_paused
      [] OTHER          -> T_status_playing

\* a status reply that fits one read, and one that does not
ShortStatus(st) == StatusNeedle(st) \o <<NL>>

LongStatus(st) ==
    ShortStatus(st) \o
    [i \in 1..(RecvBufSize + Overrun - Len(ShortStatus(st))) |-> 120]

\* player-play starts, player-stop stops, player-pause toggles between
\* playing and paused ("Plays if paused, pauses if playing")
PlayerApply(st, line) ==
    IF line = T_player_play THEN "playing"
    ELSE IF line = T_player_stop THEN "stopped"
    ELSE IF line = T_player_pause
         THEN (IF st = "playing" THEN "paused"
               ELSE IF st = "paused" THEN "playing" ELSE st)
    ELSE st

PlayerReplies(st, line) ==
    IF line = T_status THEN {ShortStatus(st), LongStatus(st)}
    ELSE {<<NL>>}

\* what a status reply's first line reports, read off the reply itself
ReportedState(reply) ==
    IF StartsWith(reply, ShortStatus("stopped")) THEN "stopped"
    ELSE IF StartsWith(reply, ShortStatus("paused")) THEN "paused"
    ELSE IF StartsWith(reply, ShortStatus("playing")) THEN "playing"
    ELSE "none"

\* ------------------------------------------------------ the byte stream
\* the first n bytes queued on a connection, the commands they answer, and
\* what stays queued
RECURSIVE Take(_, _)
Take(chunks, n) ==
    IF n = 0 \/ chunks = <<>>
    THEN [data |-> <<>>, origins |-> {}, rest |-> chunks]
    ELSE LET c == Head(chunks) IN
         IF Len(c.data) <= n
         THEN LET r == Take(Tail(chunks), n - Len(c.data)) IN
              [data |-> c.data \o r.data,
               origins |-> {c.origin} \cup r.origins,
               rest |-> r.rest]
         ELSE [data |-> SubSeq(c.data, 1, n),
               origins |-> {c.origin},
               rest |-> <<[data |-> SubSeq(c.data, n + 1, Len(c.data)),
                           origin |-> c.origin]>> \o Tail(chunks)]

NoConn == [open |-> FALSE, dropped |-> FALSE,
           toServer |-> <<>>, fromServer |-> <<>>]

EnvStates ==
    {e \in [xdgSet : BOOLEAN, homeSet : BOOLEAN,
            xdgExists : BOOLEAN, homeExists : BOOLEAN] :
        /\ e.xdgExists => e.xdgSet
        /\ e.homeExists => e.homeSet}

\* the lists one add_list call may hand over: one or two locators
TrackLists == [1..1 -> TrackName] \cup [1..2 -> TrackName]


\* ---------------------------------------------------------------- state
VARIABLES
    callers,      \* the threads that call into this client
    self_socket,  \* CmusPlayer._socket: 0 while the attribute is absent
    tracks,       \* the backend's queue
    index,        \* the backend's (unused) cursor
    player,       \* the player's real state
    conn,         \* the connections made, by the thread that made them
    pc,           \* each thread's place inside send_socket_command
    op,           \* the operation each thread runs
    stage,        \* its place in that operation
    cmd,          \* the argument of its current send_socket_command
    s,            \* the local socket s of its current send_socket_command
    ret,          \* the text its last send_socket_command returned
    result,       \* "idle", "running", the returned value or the exception
    wrote,        \* byte strings the operation has written so far
    heard,        \* what each reply the operation read reports
    io,           \* socket calls of the current send_socket_command
    cid,          \* the number of the command the thread last wrote
    got,          \* the commands whose reply bytes its last read returned
    calls,        \* operations begun
    ncmd,         \* commands written
    nWrites,      \* send calls that wrote
    connectLog,   \* whether each connect_socket so far returned
    nReads,       \* recv calls that returned
    nCompleted,   \* send_socket_command calls that returned
    lastResolve   \* the run of connect_socket in progress or just failed

vars == <<callers, self_socket, tracks, index, player, conn, pc, op, stage,
          cmd, s, ret, result, wrote, heard, io, cid, got, calls, ncmd,
          nWrites, nReads, nCompleted, connectLog, lastResolve>>

clientVars == <<pc, op, stage, cmd, s, ret, result, wrote, heard, io, cid, got>>

counters == <<ncmd, nWrites, nReads, nCompleted>>

NConnected == Len(SelectSeq(connectLog, LAMBDA b : b))

NoResolve == [env |-> [xdgSet |-> FALSE, homeSet |-> FALSE,
                       xdgExists |-> FALSE, homeExists |-> FALSE],
              path |-> "none", connect |-> "none", ok |-> FALSE]

InitWith(cs) ==
    /\ callers = cs
    /\ self_socket = 0
    /\ tracks = <<>>
    /\ index = 0
    /\ player \in PlayerState
    /\ conn = [k \in Thread |-> NoConn]
    /\ pc = [t \in Thread |-> "idle"]
    /\ op = [t \in Thread |-> "none"]
    /\ stage = [t \in Thread |-> "end"]
    /\ cmd = [t \in Thread |-> <<>>]
    /\ s = [t \in Thread |-> 0]
    /\ ret = [t \in Thread |-> <<>>]
    /\ result = [t \in Thread |-> "idle"]
    /\ wrote = [t \in Thread |-> <<>>]
    /\ heard = [t \in Thread |-> <<>>]
    /\ io = [t \in Thread |-> <<>>]
    /\ cid = [t \in Thread |-> 0]
    /\ got = [t \in Thread |-> {}]
    /\ calls = 0
    /\ ncmd = 0
    /\ nWrites = 0
    /\ nReads = 0
    /\ nCompleted = 0
    /\ connectLog = <<>>
    /\ lastResolve = NoResolve

\* one caller thread, the use the client is written for
Init == InitWith({1})

\* two caller threads on the one client
InitConc == InitWith(Thread)

\* --------------------------------------------------- backend queue calls
\* thread t enters operation o: what the model records of the operation
\* before it starts afresh
Enter(t, o) ==
    /\ pc[t] = "idle"
    /\ calls < MaxCalls
    /\ calls' = calls + 1
    /\ op' = [op EXCEPT ![t] = o]
    /\ wrote' = [wrote EXCEPT ![t] = <<>>]
    /\ heard' = [heard EXCEPT ![t] = <<>>]
    /\ ret' = [ret EXCEPT ![t] = <<>>]
    /\ io' = [io EXCEPT ![t] = <<>>]
    /\ got' = [got EXCEPT ![t] = {}]
    /\ lastResolve' = NoResolve

clear_list(t) ==
    /\ Enter(t, "clear_list")
    /\ index' = 0
    /\ tracks' = <<>>
    /\ result' = [result EXCEPT ![t] = "None"]
    /\ UNCHANGED <<callers, self_socket, player, conn, pc, stage, cmd, s,
                   cid, counters, connectLog>>

add_list(t, trk) ==
    /\ Enter(t, "add_list")
    /\ Len(tracks) + Len(trk) <= MaxTracks
    /\ tracks' = tracks \o trk
    /\ result' = [result EXCEPT ![t] = "None"]
    /\ UNCHANGED <<callers, self_socket, index, player, conn, pc, stage, cmd,
                   s, cid, counters, connectLog>>

\* --------------------------------------------- an operation is called
Call(t, o) ==
    /\ Enter(t, o)
    /\ LET st == Program(o, "start", <<>>, tracks) IN
       /\ stage' = [stage EXCEPT ![t] = st.stage]
       /\ cmd' = [cmd EXCEPT ![t] = st.cmd]
    /\ pc' = [pc EXCEPT ![t] = "get"]
    /\ result' = [result EXCEPT ![t] = "running"]
    /\ UNCHANGED <<callers, self_socket, tracks, index, player, conn, s, cid,
                   counters, connectLog>>

\* the exception leaves send_socket_command and the operation
Raise(t, exc) ==
    /\ pc' = [pc EXCEPT ![t] = "idle"]
    /\ result' = [result EXCEPT ![t] = exc]

\* ------------------------------------------------------ get_open_socket
\* get_open_socket without the hasattr test: a new socket every time
Get_uncached(t) ==
    /\ pc[t] = "get"
    /\ io' = [io EXCEPT ![t] = <<>>]
    /\ got' = [got EXCEPT ![t] = {}]
    /\ pc' = [pc EXCEPT ![t] = "connect"]
    /\ UNCHANGED <<callers, self_socket, tracks, index, player, conn, op,
                   stage, cmd, s, ret, result, wrote, heard, cid, calls,
                   counters, lastResolve, connectLog>>

\* if hasattr(self, '_socket'): return self._socket
Get(t) ==
    /\ pc[t] = "get"
    /\ io' = [io EXCEPT ![t] = <<>>]
    /\ got' = [got EXCEPT ![t] = {}]
    /\ IF self_socket # 0
       THEN /\ s' = [s EXCEPT ![t] = self_socket]
            /\ pc' = [pc EXCEPT ![t] = "send"]
       ELSE /\ s' = s
            /\ pc' = [pc EXCEPT ![t] = "connect"]
    /\ UNCHANGED <<callers, self_socket, tracks, index, player, conn, op,
                   stage, cmd, ret, result, wrote, heard, cid, calls,
                   counters, lastResolve, connectLog>>

\* create_socket, then connect_socket: socket_path raises
ConnectNoPath(t) ==
    /\ pc[t] = "connect"
    /\ \E env \in EnvStates :
         /\ socket_path(env) \in {"KeyError", "RuntimeError"}
         /\ lastResolve' = [env |-> env, path |-> socket_path(env),
                            connect |-> "none", ok |-> FALSE]
         /\ Raise(t, socket_path(env))
    /\ connectLog' = connectLog
    /\ UNCHANGED <<callers, self_socket, tracks, index, player, conn, op,
                   stage, cmd, s, ret, wrote, heard, io, cid, got, calls,
                   counters>>

\* get_open_socket that sets self._socket before it connects
ConnectRefused_cached(t) ==
    /\ pc[t] = "connect"
    /\ \E env \in EnvStates :
         /\ socket_path(env) \in {"xdg", "home"}
         /\ lastResolve' = [env |-> env, path |-> socket_path(env),
                            connect |-> socket_path(env), ok |-> FALSE]
    /\ self_socket' = t
    /\ Raise(t, "ConnectionRefusedError")
    /\ connectLog' = Append(connectLog, FALSE)
    /\ UNCHANGED <<callers, tracks, index, player, conn, op,
                   stage, cmd, s, ret, wrote, heard, io, cid, got, calls,
                   counters>>

\* socket.connect(path) raises (nothing listens on the path)
ConnectRefused(t) ==
    /\ pc[t] = "connect"
    /\ \E env \in EnvStates :
         /\ socket_path(env) \in {"xdg", "home"}
         /\ lastResolve' = [env |-> env, path |-> socket_path(env),
                            connect |-> socket_path(env), ok |-> FALSE]
    /\ Raise(t, "ConnectionRefusedError")
    /\ connectLog' = Append(connectLog, FALSE)
    /\ UNCHANGED <<callers, self_socket, tracks, index, player, conn, op,
                   stage, cmd, s, ret, wrote, heard, io, cid, got, calls,
                   counters>>

\* socket.connect(path) returns
ConnectOk(t) ==
    /\ pc[t] = "connect"
    /\ \E env \in EnvStates :
         /\ socket_path(env) \in {"xdg", "home"}
         /\ lastResolve' = [env |-> env, path |-> socket_path(env),
                            connect |-> socket_path(env), ok |-> TRUE]
    /\ conn' = [conn EXCEPT ![t] = [NoConn EXCEPT !.open = TRUE]]
    /\ connectLog' = Append(connectLog, TRUE)
    /\ s' = [s EXCEPT ![t] = t]
    /\ pc' = [pc EXCEPT ![t] = "assign"]
    /\ UNCHANGED <<callers, self_socket, tracks, index, player, op, stage,
                   cmd, ret, result, wrote, heard, io, cid, got, calls,
                   counters>>

\* self._socket = s
Assign(t) ==
    /\ pc[t] = "assign"
    /\ self_socket' = s[t]
    /\ pc' = [pc EXCEPT ![t] = "send"]
    /\ lastResolve' = NoResolve
    /\ UNCHANGED <<callers, tracks, index, player, conn, op, stage, cmd, s,
                   ret, result, wrote, heard, io, cid, got, calls, counters,
                   connectLog>>

\* -------------------------------------------------- send_socket_command
\* (command + "\n").encode("ascii") raises
SendEncodeError(t) ==
    /\ pc[t] = "send"
    /\ ~EncodeAsciiOk(Wire(cmd[t]))
    /\ Raise(t, "UnicodeEncodeError")
    /\ UNCHANGED <<callers, self_socket, tracks, index, player, conn, op,
                   stage, cmd, s, ret, wrote, heard, io, cid, got, calls,
                   counters, lastResolve, connectLog>>

\* s.send(...) on a connection the player has dropped
SendBroken(t) ==
    /\ pc[t] = "send"
    /\ EncodeAsciiOk(Wire(cmd[t]))
    /\ conn[s[t]].dropped
    /\ Raise(t, "BrokenPipeError")
    /\ UNCHANGED <<callers, self_socket, tracks, index, player, conn, op,
                   stage, cmd, s, ret, wrote, heard, io, cid, got, calls,
                   counters, lastResolve, connectLog>>

\* s.send(...) writes the line
Send(t) ==
    /\ pc[t] = "send"
    /\ EncodeAsciiOk(Wire(cmd[t]))
    /\ ~conn[s[t]].dropped
    /\ ncmd' = ncmd + 1
    /\ nWrites' = nWrites + 1
    /\ cid' = [cid EXCEPT ![t] = ncmd + 1]
    /\ conn' = [conn EXCEPT ![s[t]].toServer =
                    Append(@, [data |-> Wire(cmd[t]),
                               origin |-> [by |-> t, n |-> ncmd + 1]])]
    /\ wrote' = [wrote EXCEPT ![t] = Append(@, Wire(cmd[t]))]
    /\ io' = [io EXCEPT ![t] = Append(@, [k |-> "w", data |-> Wire(cmd[t]), n |-> 0])]
    /\ pc' = [pc EXCEPT ![t] = "recv"]
    /\ UNCHANGED <<callers, self_socket, tracks, index, player, op, stage,
                   cmd, s, ret, result, heard, got, calls, nReads,
                   nCompleted, lastResolve, connectLog>>

\* recv returned `bytes`: decode, return the text, and go on with the
\* operation that called send_socket_command
Returned(t, bytes, origins) ==
    /\ nReads' = nReads + 1
    /\ io' = [io EXCEPT ![t] = Append(@, [k |-> "r", data |-> <<>>, n |-> RecvRequest])]
    /\ got' = [got EXCEPT ![t] = origins]
    /\ IF ~DecodeUtf8Ok(bytes)
       THEN /\ Raise(t, "UnicodeDecodeError")
            /\ UNCHANGED <<nCompleted, ret, heard, stage, cmd>>
       ELSE LET st == Program(op[t], stage[t], bytes, tracks) IN
            /\ nCompleted' = nCompleted + 1
            /\ ret' = [ret EXCEPT ![t] = bytes]
            /\ heard' = [heard EXCEPT ![t] = Append(@, ReportedState(bytes))]
            /\ stage' = [stage EXCEPT ![t] = st.stage]
            /\ IF st.kind = "send"
               THEN /\ cmd' = [cmd EXCEPT ![t] = st.cmd]
                    /\ pc' = [pc EXCEPT ![t] = "get"]
                    /\ result' = result
               ELSE /\ cmd' = cmd
                    /\ pc' = [pc EXCEPT ![t] = "idle"]
                    /\ result' = [result EXCEPT ![t] = st.val]

\* s.recv(2048) returns the bytes queued, at most 2048 of them
Recv(t) ==
    /\ pc[t] = "recv"
    /\ conn[s[t]].fromServer # <<>>
    /\ LET r == Take(conn[s[t]].fromServer, RecvRequest) IN
       /\ conn' = [conn EXCEPT ![s[t]].fromServer = r.rest]
       /\ Returned(t, r.data, r.origins)
    /\ UNCHANGED <<callers, self_socket, tracks, index, player, op, s, wrote,
                   cid, calls, ncmd, nWrites, lastResolve, connectLog>>

\* s.recv(2048) on a dropped connection with nothing queued: end of stream
RecvEOF(t) ==
    /\ pc[t] = "recv"
    /\ conn[s[t]].fromServer = <<>>
    /\ conn[s[t]].dropped
    /\ Returned(t, <<>>, {})
    /\ UNCHANGED <<callers, self_socket, tracks, index, player, conn, op, s,
                   wrote, cid, calls, ncmd, nWrites, lastResolve, connectLog>>

\* s.recv(2048) on a dropped connection with nothing queued: reset
RecvReset(t) ==
    /\ pc[t] = "recv"
    /\ conn[s[t]].fromServer = <<>>
    /\ conn[s[t]].dropped
    /\ Raise(t, "ConnectionResetError")
    /\ UNCHANGED <<callers, self_socket, tracks, index, player, conn, op,
                   stage, cmd, s, ret, wrote, heard, io, cid, got, calls,
                   counters, lastResolve, connectLog>>

\* ------------------------------------------------------- the environment
\* the player reads one command line from a connection and answers it
PlayerStep(k) ==
    /\ conn[k].open
    /\ ~conn[k].dropped
    /\ conn[k].toServer # <<>>
    /\ LET c == Head(conn[k].toServer)
           line == SubSeq(c.data, 1, Len(c.data) - 1)
       IN /\ c.data[Len(c.data)] = NL
          /\ player' = PlayerApply(player, line)
          /\ \E r \in PlayerReplies(player, line) :
               conn' = [conn EXCEPT ![k].toServer = Tail(@),
                                    ![k].fromServer =
                                        Append(@, [data |-> r, origin |-> c.origin])]
    /\ UNCHANGED <<callers, self_socket, tracks, index, clientVars, calls,
                   counters, lastResolve, connectLog>>

\* the player goes away: the connection is dropped for good
Drop(k) ==
    /\ conn[k].open
    /\ ~conn[k].dropped
    /\ conn' = [conn EXCEPT ![k].dropped = TRUE]
    /\ UNCHANGED <<callers, self_socket, tracks, index, player, clientVars,
                   calls, counters, lastResolve, connectLog>>

Next ==
    \/ \E t \in callers, o \in Ops : Call(t, o)
    \/ \E t \in callers : clear_list(t)
    \/ \E t \in callers, trk \in TrackLists : add_list(t, trk)
    \/ \E t \in callers : Get(t)
    \/ \E t \in callers : ConnectNoPath(t)
    \/ \E t \in callers : ConnectRefused(t)
    \/ \E t \in callers : ConnectOk(t)
    \/ \E t \in callers : Assign(t)
    \/ \E t \in callers : SendEncodeError(t)
    \/ \E t \in callers : SendBroken(t)
    \/ \E t \in callers : Send(t)
    \/ \E t \in callers : Recv(t)
    \/ \E t \in callers : RecvEOF(t)
    \/ \E t \in callers : RecvReset(t)
    \/ \E k \in Thread : PlayerStep(k)
    \/ \E k \in Thread : Drop(k)

Spec == Init /\ [][Next]_vars

SpecConc == InitConc /\ [][Next]_vars


\* =============================================================== claims
Line(c) == c \o <<NL>>

ReturnedValues == {"None", "True", "False"}

ConnectErrors == {"KeyError", "RuntimeError", "ConnectionRefusedError"}

\* the operation o of thread t has returned
Completed(t, o) == op[t] = o /\ result[t] \in ReturnedValues

\* what the operation wrote besides its status queries
Controls(t) == SelectSeq(wrote[t], LAMBDA w : w # Line(T_status))

Stops(t) == SelectSeq(wrote[t], LAMBDA w : w = Line(T_player_stop))

\* C1: play_pause issues one control command besides its status queries:
\* player-play (and no player-pause) when the first status reply reports
\* stopped, player-pause (and no player-play) when it reports playing or
\* paused; it never issues more than one.
C1_PlayPauseOneControl ==
    \A t \in Thread : op[t] = "play_pause" =>
        /\ Len(Controls(t)) <= 1
        /\ result[t] \in ReturnedValues =>
             /\ Len(Controls(t)) = 1
             /\ heard[t][1] = "stopped" =>
                    wrote[t] = <<Line(T_status), Line(T_player_play)>>
             /\ heard[t][1] \in {"playing", "paused"} =>
                    wrote[t] = <<Line(T_status), Line(T_status),
                                 Line(T_player_pause)>>

C1_Witness ==
    \E t \in Thread :
        /\ Completed(t, "play_pause")
        /\ heard[t][1] = "paused"
        /\ Controls(t) = <<Line(T_player_pause)>>

\* C2: the backend's stop() returns False and writes no player-stop when the
\* status reply reports stopped, returns True and writes exactly one
\* player-stop when it reports playing; it returns True exactly when a
\* player-stop was written during the call.
C2_StopReturnsWhetherIssued ==
    \A t \in Thread : Completed(t, "stop") =>
        /\ heard[t][1] = "stopped" =>
              result[t] = "False" /\ wrote[t] = <<Line(T_status)>>
        /\ heard[t][1] = "playing" =>
              /\ result[t] = "True"
              /\ wrote[t] = <<Line(T_status), Line(T_player_stop)>>
        /\ Len(Stops(t)) <= 1
        /\ (result[t] = "True") <=> (Len(Stops(t)) = 1)

C2_Witness ==
    \E t \in Thread :
        /\ Completed(t, "stop")
        /\ heard[t][1] = "playing"
        /\ result[t] = "True"

Queries == {"is_stopped", "is_paused", "is_playing"}

QueryState(o) ==
    CASE o = "is_stopped" -> "stopped"
      [] o = "is_paused"  -> "paused"
      [] OTHER            -> "playing"

\* C3: with the reply the fixed string "status X", the query for X returns
\* True and the other two return False; with a reply holding none of the
\* three status strings every query returns False; a query writes exactly
\* one status command.
C3_QueriesMatchReply ==
    \A t \in Thread : \A o \in Queries : Completed(t, o) =>
        /\ wrote[t] = <<Line(T_status)>>
        /\ \A st \in PlayerState :
              ret[t] \in {StatusNeedle(st), ShortStatus(st)} =>
                  result[t] = PyBool(st = QueryState(o))
        /\ (/\ ~Contains(T_status_stopped, ret[t])
            /\ ~Contains(T_status_paused, ret[t])
            /\ ~Contains(T_status_playing, ret[t])) => result[t] = "False"

C3_Witness ==
    \E t \in Thread :
        /\ Completed(t, "is_paused")
        /\ ret[t] = ShortStatus("paused")
        /\ result[t] = "True"

\* C4: path resolution uses the runtime-dir candidate when it exists, else
\* the home-directory candidate when that exists, and connects to it; when
\* neither exists it fails with the socket-not-found RuntimeError and no
\* connect is attempted.
C4_FirstExistingCandidate ==
    lastResolve.path # "none" =>
        LET e == lastResolve.env IN
        /\ e.xdgExists => lastResolve.connect = "xdg"
        /\ (~e.xdgExists /\ e.homeExists) => lastResolve.connect = "home"
        /\ (~e.xdgExists /\ ~e.homeExists) =>
              /\ lastResolve.path = "RuntimeError"
              /\ lastResolve.connect = "none"

\* the characters str() of a list puts around its entries
Punct == {91, 93, 39, 44, 32}

RECURSIVE Flatten(_)
Flatten(l) == IF l = <<>> THEN <<>> ELSE Head(l) \o Flatten(Tail(l))

\* C5: a play() that returned wrote exactly two commands: one add whose
\* argument holds every queued track, in queue order, and after it one
\* player-play.
C5_AddThenPlay ==
    \A t \in Thread : Completed(t, "play") =>
        /\ Len(wrote[t]) = 2
        /\ wrote[t][2] = Line(T_player_play)
        /\ StartsWith(wrote[t][1], T_add_)
        /\ LET w == wrote[t][1]
               payload == SubSeq(w, Len(T_add_) + 1, Len(w) - 1)
           IN  SelectSeq(payload, LAMBDA c : c \notin Punct) = Flatten(tracks)

C5_Witness ==
    \E t \in Thread :
        /\ Completed(t, "play")
        /\ Len(tracks) = 2
        /\ tracks[1] # tracks[2]

\* C6: every send_socket_command writes its command followed by exactly one
\* newline and then does exactly one read, bounded at 2048 bytes, before it
\* returns; with one caller the writes and reads on the socket alternate and
\* the reads are as many as the commands that returned.
C6_OneWriteOneRead ==
    /\ nReads = nCompleted
    /\ nReads <= nWrites
    /\ nWrites <= nReads + 1
    /\ \A t \in Thread :
        /\ Len(io[t]) <= 2
        /\ pc[t] = "recv" =>
              io[t] = <<[k |-> "w", data |-> cmd[t] \o <<10>>, n |-> 0]>>
        /\ Len(io[t]) = 2 =>
              /\ io[t][1].k = "w"
              /\ io[t][2] = [k |-> "r", data |-> <<>>, n |-> 2048]
        /\ (op[t] \in Ops /\ result[t] \in ReturnedValues) => Len(io[t]) = 2
        /\ (pc[t] = "get" /\ wrote[t] # <<>>) => Len(io[t]) = 2

C6_Witness ==
    \E t \in Thread :
        /\ result[t] \in ReturnedValues
        /\ Len(wrote[t]) = 3
        /\ nWrites = 3
        /\ nReads = 3

\* C7: the client holds at most one connection: it is made by the first
\* command, every later command uses that cached handle, and no command, a
\* failing one included, makes a second connection or changes the handle.
C7_OneConnection ==
    /\ NConnected <= 1
    /\ Cardinality({k \in Thread : conn[k].open}) <= 1
    /\ self_socket # 0 => (conn[self_socket].open /\ NConnected = 1)
    /\ \A t \in Thread : pc[t] \in {"send", "recv"} => s[t] = self_socket

C7_Witness ==
    \E t \in Thread :
        /\ calls = 2
        /\ result[t] = "BrokenPipeError"
        /\ wrote[t] = <<>>
        /\ self_socket # 0
        /\ conn[self_socket].dropped
        /\ NConnected = 1

\* C8: pause() writes player-pause only when the status reply does not
\* report paused, resume() only when it reports paused; once the player has
\* taken the commands, pause() has not left it playing and resume() has not
\* left it paused.
C8_PauseResume ==
    \A t \in Thread :
        /\ Completed(t, "pause") =>
             /\ heard[t][1] = "paused" => wrote[t] = <<Line(T_status)>>
             /\ heard[t][1] # "paused" =>
                    wrote[t] = <<Line(T_status), Line(T_player_pause)>>
             /\ conn[s[t]].toServer = <<>> => player # "playing"
        /\ Completed(t, "resume") =>
             /\ heard[t][1] = "paused" =>
                    wrote[t] = <<Line(T_status), Line(T_player_pause)>>
             /\ heard[t][1] # "paused" => wrote[t] = <<Line(T_status)>>
             /\ conn[s[t]].toServer = <<>> => player # "paused"

\* C9: with a single caller thread no read returns bytes of the reply to a
\* command other than the one that call wrote.
C9_SingleCallerPairing ==
    callers = {1} =>
        \A t \in Thread : got[t] \subseteq {[by |-> t, n |-> cid[t]]}

\* C9, two callers: a read that returns bytes of the reply to a command the
\* other thread wrote.
C9_CrossRead ==
    \E t \in Thread : \E o \in got[t] : o.by # t

\* C10: a connect_socket that fails (no candidate path, or connect raises)
\* leaves no handle cached and nothing written; a handle is cached only
\* after a connect returned, and nothing is sent on an unconnected socket.
C10_FailedConnectCachesNothing ==
    /\ \A t \in Thread : result[t] \in ConnectErrors =>
          /\ self_socket = 0
          /\ NConnected = 0
          /\ ~conn[t].open
          /\ io[t] = <<>>
          /\ wrote[t] = <<>>
          /\ ncmd = 0
    /\ self_socket # 0 => (NConnected >= 1 /\ conn[self_socket].open)
    /\ \A t \in Thread : pc[t] \in {"send", "recv"} => conn[s[t]].open

C10_Witness ==
    /\ Len(connectLog) = 2
    /\ ~connectLog[1]
    /\ connectLog[2]
    /\ self_socket # 0

====
